---- MODULE Spec2Model ----
(***************************************************************************)
(* Bovali AI Studio: the view controller of src/App.tsx and the request    *)
(* orchestrator of src/services/geminiService.ts as a state machine.       *)
(*                                                                         *)
(* Strings built by template substitution are sequences of chunks, so a    *)
(* message "includes" a text when the text is one of its chunks.  A null   *)
(* string is the empty sequence.                                           *)
(***************************************************************************)
EXTENDS Integers, Sequences, FiniteSets, Bags, TLC

VARIABLES
    mounted,        \* the effects of the first render have run
    activeTab,
    generationMode,
    surfaceType,
    extractionType,
    imageState,     \* renderShot, pattern, material, sourceImage: [file, previewUrl]
    outputImage,
    loading,
    error,
    tileWidth,
    tileHeight,
    tileUnit,
    processedImage,
    isProcessing,
    processingError,
    sourceWidth,
    sourceHeight,
    sourceUnit,
    isBotTyping,
    messages,
    chatRef,        \* chatRef.current
    pending,        \* bag of outbound calls awaiting their answer
    now,            \* Date.now()
    objectUrls,     \* [created, live]: URL.createObjectURL / revokeObjectURL
    chats,          \* [created, sent]: sessions created, messages handed to handleSendMessage
    lastOp,         \* history: the handler of the last step, when it reset something
    orch            \* one orchestrator call seen in isolation: input, result

(***************************************************************************)
(* Bounds                                                                  *)
(***************************************************************************)
MaxParts == 3       \* longest list of parts in a model response

MaxUrls == 3        \* preview locators created in one run

MaxSends == 1       \* chat messages sent in one run

MaxTicks == 1       \* milliseconds the clock advances in one run

MaxChatSends == 2   \* chat messages sent in one run of the chat on its own

Null == <<>>

(***************************************************************************)
(* The external model's answer                                             *)
(***************************************************************************)
ImagePart(m, d) == [inlineData |-> TRUE, mimeType |-> m, data |-> d, text |-> ""]

TextPart(t) == [inlineData |-> FALSE, mimeType |-> "", data |-> "", text |-> t]

\* Two images, two texts, and a part with neither inline data nor text.
PartValues ==
    { ImagePart("image/png", "AAAA"), ImagePart("image/jpeg", "BBBB"),
      TextPart("Here is your design"), TextPart("I cannot do that"), TextPart("") }

SeqsUpTo(S, n) == UNION { [1..k -> S] : k \in 0..n }

\* candidates absent or empty; candidates[0] without content; candidates[0].content.parts
Responses ==
    { [shape |-> "NoCandidates", parts |-> <<>>], [shape |-> "NoContent", parts |-> <<>>] }
    \cup { [shape |-> "Parts", parts |-> p] : p \in SeqsUpTo(PartValues, MaxParts) }

\* What awaiting the outbound call gives: a response, a thrown Error, or a
\* thrown value that is no Error (a FileReader ProgressEvent, a string, ...).
ApiOutcomes ==
    { [kind |-> "response", response |-> r] : r \in Responses }
    \cup { [kind |-> "throwError", response |-> [shape |-> "NoCandidates", parts |-> <<>>]],
           [kind |-> "throwOther", response |-> [shape |-> "NoCandidates", parts |-> <<>>]] }

NetworkErrorMessage == <<"Failed to fetch">>

TypeErrorMessage == <<"Cannot read properties of undefined (reading 'parts')">>

(***************************************************************************)
(* Orchestrator results                                                    *)
(***************************************************************************)
Resolved(url, t) ==
    [status |-> "resolved", imageUrl |-> url, text |-> t, isError |-> FALSE, message |-> Null]

\* isError: the rejection value is an instance of Error
Rejected(isErr, msg) ==
    [status |-> "rejected", imageUrl |-> Null, text |-> "", isError |-> isErr, message |-> msg]

DataUrl(mimeType, base64) == <<"data:", mimeType, ";base64,", base64>>

EditNoImageWithText(t) == <<"The AI responded but did not return an image: \"", t, "\"">>

EditNoImage == <<"The AI did not return an image for your edit request.">>

EditUnknown == <<"An unknown error occurred while editing the image.">>

GenerateNoImage ==
    <<"AI failed to generate a new image. Please try a different combination of images or prompt.">>

\* editImageWithPrompt with the text branch of its loop left out.
RECURSIVE EditScanDropsText(_, _, _, _)
EditScanDropsText(parts, i, imageUrl, text) ==
    IF i > Len(parts) THEN [imageUrl |-> imageUrl, text |-> text]
    ELSE IF parts[i].inlineData
         THEN EditScanDropsText(parts, i + 1, DataUrl(parts[i].mimeType, parts[i].data), text)
         ELSE EditScanDropsText(parts, i + 1, imageUrl, text)

\* The loop of editImageWithPrompt: no break, every part is visited and a
\* later image or text overwrites an earlier one.
RECURSIVE EditScan(_, _, _, _)
EditScan(parts, i, imageUrl, text) ==
    IF i > Len(parts) THEN [imageUrl |-> imageUrl, text |-> text]
    ELSE IF parts[i].inlineData
         THEN EditScan(parts, i + 1, DataUrl(parts[i].mimeType, parts[i].data), text)
         ELSE IF parts[i].text # ""
              THEN EditScan(parts, i + 1, imageUrl, parts[i].text)
              ELSE EditScan(parts, i + 1, imageUrl, text)

editImageWithPrompt(api) ==
    IF api.kind = "throwError" THEN Rejected(TRUE, NetworkErrorMessage)
    ELSE IF api.kind = "throwOther" THEN Rejected(TRUE, EditUnknown)
    ELSE IF api.response.shape = "NoContent" THEN Rejected(TRUE, TypeErrorMessage)
    ELSE LET found == IF api.response.shape = "Parts"
                      THEN EditScan(api.response.parts, 1, Null, "")
                      ELSE [imageUrl |-> Null, text |-> ""]
         IN  IF found.imageUrl = Null
             THEN IF found.text # ""
                  THEN Rejected(TRUE, EditNoImageWithText(found.text))
                  ELSE Rejected(TRUE, EditNoImage)
             ELSE Resolved(found.imageUrl, found.text)

\* generateSurfaceDesign looking at parts[0] alone.
FirstPartOnly(parts, i) ==
    IF i <= Len(parts) /\ parts[i].inlineData
    THEN DataUrl(parts[i].mimeType, parts[i].data)
    ELSE Null

\* The loop of generateSurfaceDesign: breaks at the first inline-data part.
RECURSIVE FirstImageUrl(_, _)
FirstImageUrl(parts, i) ==
    IF i > Len(parts) THEN Null
    ELSE IF parts[i].inlineData THEN DataUrl(parts[i].mimeType, parts[i].data)
    ELSE FirstImageUrl(parts, i + 1)

generateSurfaceDesign(api) ==
    IF api.kind = "throwError" THEN Rejected(TRUE, NetworkErrorMessage)
    ELSE IF api.kind = "throwOther" THEN Rejected(FALSE, Null)
    ELSE LET imageUrl == IF api.response.shape = "Parts"
                         THEN FirstImageUrl(api.response.parts, 1)
                         ELSE Null
         IN  IF imageUrl = Null
             THEN Rejected(TRUE, GenerateNoImage)
             ELSE Resolved(imageUrl, "")

SurfaceOperations ==
    {"applyPatternAndMaterial", "applyPatternOnly", "applyMaterialOnly", "extractAndProcessImage"}

Operations == {"editImageWithPrompt"} \cup SurfaceOperations

\* Every operation but the edit returns what generateSurfaceDesign returns.
OperationResult(op, api) ==
    IF op = "editImageWithPrompt" THEN editImageWithPrompt(api) ELSE generateSurfaceDesign(api)

(***************************************************************************)
(* View controller: values                                                 *)
(***************************************************************************)
NoFile == "null"

NoUrl == 0

NoChat == 0

ClockStart == 1000

Tabs == {"generator", "extractor"}

Modes == {"PatternAndMaterial", "PatternOnly", "MaterialOnly"}

Slots == {"renderShot", "pattern", "material", "sourceImage"}

Files == {"room.png", "tile.jpg"}

FileType(f) == IF f = "room.png" THEN "image/png" ELSE "image/jpeg"

FileBytes(f) == IF f = "room.png" THEN "Um9vbQ==" ELSE "VGlsZQ=="

\* reader.readAsDataURL(file), then result.split(',')[1]
fileToBase64(f) == DataUrl(FileType(f), FileBytes(f))[4]

InlineData(f) == [data |-> fileToBase64(f), mimeType |-> FileType(f)]

DimValues == {"", "60"}

Units == {"cm", "inches"}

\* What a dimension input can hold when a submit is made: nothing, a number,
\* and a text no tile can measure.
DimTexts == {"", "60", "-1.5e3"}

MessageTexts == {"make it darker"}

EmptyImage == [file |-> NoFile, previewUrl |-> NoUrl]

Greeting ==
    [id |-> 1, text |-> <<"Hello! How can I assist you with your Bovali design today?">>,
     sender |-> "bot"]

\* The answers the running application is given: every shape of one or two
\* parts over one text and two images, no candidates, and both kinds of throw.
AppApiOutcomes ==
    { a \in ApiOutcomes :
        /\ a.response.shape # "NoContent"
        /\ Len(a.response.parts) <= 2
        /\ \A i \in DOMAIN a.response.parts :
              a.response.parts[i].text \in {"", "Here is your design"} }

\* What each operation can come back with.
AnswersByOperation ==
    [op \in Operations |-> { OperationResult(op, api) : api \in AppApiOutcomes }]

Answers(op) == AnswersByOperation[op]

Panel ==
    [imageState |-> imageState, outputImage |-> outputImage, error |-> error,
     tileWidth |-> tileWidth, tileHeight |-> tileHeight,
     processedImage |-> processedImage, processingError |-> processingError,
     sourceWidth |-> sourceWidth, sourceHeight |-> sourceHeight]

SetPanel(p) ==
    /\ imageState' = p.imageState
    /\ outputImage' = p.outputImage
    /\ error' = p.error
    /\ tileWidth' = p.tileWidth
    /\ tileHeight' = p.tileHeight
    /\ processedImage' = p.processedImage
    /\ processingError' = p.processingError
    /\ sourceWidth' = p.sourceWidth
    /\ sourceHeight' = p.sourceHeight

\* Whether anything the panel shows as a result is set.
HasResults(p) ==
    \/ p.outputImage # Null
    \/ p.error # Null
    \/ p.processedImage # Null
    \/ p.processingError # Null

\* History: the handler of the last step when it reset something that was set.
Discards(name, had) == IF had THEN name ELSE "none"

(***************************************************************************)
(* View controller: effects                                                *)
(***************************************************************************)
\* ai.chats.create: a session handle never handed out before
createBovaliChat == chats.created + 1

\* The mount effect creating nothing.
MountEffectLazy == [chatRef |-> chatRef, created |-> chats.created]

\* useEffect(..., []): create the session unless chatRef.current holds one
MountEffect ==
    IF chatRef = NoChat
    THEN [chatRef |-> createBovaliChat, created |-> chats.created + 1]
    ELSE [chatRef |-> chatRef, created |-> chats.created]

\* The tab effect without its setTileWidth, setTileHeight, setSourceWidth and
\* setSourceHeight calls.
ActiveTabEffectKeepsDimensions(tab, p) ==
    IF tab = "generator"
    THEN [p EXCEPT !.imageState.sourceImage = EmptyImage,
                   !.processedImage = Null,
                   !.processingError = Null]
    ELSE [p EXCEPT !.imageState.renderShot = EmptyImage,
                   !.imageState.pattern = EmptyImage,
                   !.imageState.material = EmptyImage,
                   !.outputImage = Null,
                   !.error = Null]

\* useEffect(..., [activeTab]): the panel that is not shown is reset
ActiveTabEffect(tab, p) ==
    IF tab = "generator"
    THEN [p EXCEPT !.imageState.sourceImage = EmptyImage,
                   !.processedImage = Null,
                   !.processingError = Null,
                   !.sourceWidth = "",
                   !.sourceHeight = ""]
    ELSE [p EXCEPT !.imageState.renderShot = EmptyImage,
                   !.imageState.pattern = EmptyImage,
                   !.imageState.material = EmptyImage,
                   !.outputImage = Null,
                   !.error = Null,
                   !.tileWidth = "",
                   !.tileHeight = ""]

\* useEffect(..., [generationMode])
GenerationModeEffect(p) ==
    [p EXCEPT !.imageState.renderShot = EmptyImage,
              !.imageState.pattern = EmptyImage,
              !.imageState.material = EmptyImage,
              !.tileWidth = "",
              !.tileHeight = "",
              !.error = Null,
              !.outputImage = Null]

\* The first render's effects, in the order they are declared.
Mount ==
    /\ ~mounted
    /\ mounted' = TRUE
    /\ chatRef' = MountEffect.chatRef
    /\ chats' = [chats EXCEPT !.created = MountEffect.created]
    /\ SetPanel(GenerationModeEffect(ActiveTabEffect(activeTab, Panel)))
    /\ lastOp' = "none"
    /\ UNCHANGED <<activeTab, generationMode, loading, isProcessing, isBotTyping,
                   messages, pending, now, objectUrls, orch,
                   surfaceType, extractionType, tileUnit, sourceUnit>>

\* A tab button that is not the active one.
setActiveTab(tab) ==
    /\ mounted
    /\ tab # activeTab
    /\ activeTab' = tab
    /\ SetPanel(ActiveTabEffect(tab, Panel))
    /\ lastOp' = Discards("setActiveTab", ActiveTabEffect(tab, Panel) # Panel)
    /\ UNCHANGED <<mounted, generationMode, loading, isProcessing, isBotTyping,
                   messages, chatRef, chats, pending, now, objectUrls, orch,
                   surfaceType, extractionType, tileUnit, sourceUnit>>

\* A mode button of the generator studio that is not the active one.
setGenerationMode(mode) ==
    /\ mounted
    /\ activeTab = "generator"
    /\ mode # generationMode
    /\ generationMode' = mode
    /\ SetPanel(GenerationModeEffect(Panel))
    /\ lastOp' = Discards("setGenerationMode", GenerationModeEffect(Panel) # Panel)
    /\ UNCHANGED <<mounted, activeTab, loading, isProcessing, isBotTyping,
                   messages, chatRef, chats, pending, now, objectUrls, orch,
                   surfaceType, extractionType, tileUnit, sourceUnit>>

(***************************************************************************)
(* View controller: image slots and dimension inputs                       *)
(***************************************************************************)
\* Which ImageUploader the active tab and mode render.
UploaderVisible(slot) ==
    IF slot = "sourceImage" THEN activeTab = "extractor"
    ELSE /\ activeTab = "generator"
         /\ slot = "pattern" => generationMode \in {"PatternAndMaterial", "PatternOnly"}
         /\ slot = "material" => generationMode \in {"PatternAndMaterial", "MaterialOnly"}

\* The setter's updater without URL.revokeObjectURL.
RevokeNothing(live, url) == live

\* The setter's updater: revoke the slot's previous locator if it has one.
Revoke(live, url) == IF url # NoUrl THEN live \ {url} ELSE live

\* URL.createObjectURL: a locator never handed out before
createObjectURL == objectUrls.created + 1

ResetOnSelect(p) ==
    [p EXCEPT !.outputImage = Null, !.error = Null,
              !.processedImage = Null, !.processingError = Null]

\* handleImageRemove without setError(null) and setProcessingError(null).
ResetOnRemoveKeepsError(p) == [p EXCEPT !.outputImage = Null, !.processedImage = Null]

ResetOnRemove(p) ==
    [p EXCEPT !.outputImage = Null, !.error = Null,
              !.processedImage = Null, !.processingError = Null]

handleImageSelect(file, slot) ==
    /\ mounted
    /\ UploaderVisible(slot)
    /\ objectUrls.created < MaxUrls
    /\ objectUrls' =
           [created |-> objectUrls.created + 1,
            live |-> Revoke(objectUrls.live, imageState[slot].previewUrl)
                        \cup {createObjectURL}]
    /\ SetPanel(ResetOnSelect(
           [Panel EXCEPT !.imageState[slot] = [file |-> file, previewUrl |-> createObjectURL]]))
    /\ lastOp' = Discards("handleImageSelect", HasResults(Panel))
    /\ UNCHANGED <<mounted, activeTab, generationMode, loading, isProcessing, isBotTyping,
                   messages, chatRef, chats, pending, now, orch,
                   surfaceType, extractionType, tileUnit, sourceUnit>>

\* The remove button is rendered only over a preview.
handleImageRemove(slot) ==
    /\ mounted
    /\ UploaderVisible(slot)
    /\ imageState[slot].previewUrl # NoUrl
    /\ objectUrls' =
           [objectUrls EXCEPT !.live = Revoke(@, imageState[slot].previewUrl)]
    /\ SetPanel(ResetOnRemove([Panel EXCEPT !.imageState[slot] = EmptyImage]))
    /\ lastOp' = Discards("handleImageRemove", HasResults(Panel))
    /\ UNCHANGED <<mounted, activeTab, generationMode, loading, isProcessing, isBotTyping,
                   messages, chatRef, chats, pending, now, orch,
                   surfaceType, extractionType, tileUnit, sourceUnit>>

\* The tile dimension inputs are rendered for the modes that take a pattern.
TileInputsVisible ==
    activeTab = "generator" /\ generationMode \in {"PatternAndMaterial", "PatternOnly"}

setTileWidth(v) ==
    /\ mounted
    /\ TileInputsVisible
    /\ v # tileWidth
    /\ SetPanel([Panel EXCEPT !.tileWidth = v])
    /\ lastOp' = "none"
    /\ UNCHANGED <<mounted, activeTab, generationMode, loading, isProcessing, isBotTyping,
                   messages, chatRef, chats, pending, now, objectUrls, orch,
                   surfaceType, extractionType, tileUnit, sourceUnit>>

setTileHeight(v) ==
    /\ mounted
    /\ TileInputsVisible
    /\ v # tileHeight
    /\ SetPanel([Panel EXCEPT !.tileHeight = v])
    /\ lastOp' = "none"
    /\ UNCHANGED <<mounted, activeTab, generationMode, loading, isProcessing, isBotTyping,
                   messages, chatRef, chats, pending, now, objectUrls, orch,
                   surfaceType, extractionType, tileUnit, sourceUnit>>

SurfaceTypes == {"Flooring", "Walls"}

ExtractionTypes == {"Pattern", "Material"}

\* The surface type buttons of the generator studio.
setSurfaceType(v) ==
    /\ mounted
    /\ activeTab = "generator"
    /\ v # surfaceType
    /\ surfaceType' = v
    /\ lastOp' = "none"
    /\ UNCHANGED <<mounted, activeTab, generationMode, extractionType, imageState, outputImage,
                   loading, error, tileWidth, tileHeight, processedImage, isProcessing,
                   processingError, sourceWidth, sourceHeight, isBotTyping, messages, chatRef,
                   chats, pending, now, objectUrls, orch, tileUnit,
                   sourceUnit>>

\* The extraction type buttons of the extractor studio.
setExtractionType(v) ==
    /\ mounted
    /\ activeTab = "extractor"
    /\ v # extractionType
    /\ extractionType' = v
    /\ lastOp' = "none"
    /\ UNCHANGED <<mounted, activeTab, generationMode, surfaceType, imageState, outputImage,
                   loading, error, tileWidth, tileHeight, processedImage, isProcessing,
                   processingError, sourceWidth, sourceHeight, isBotTyping, messages, chatRef,
                   chats, pending, now, objectUrls, orch, tileUnit,
                   sourceUnit>>

\* The unit select next to the tile dimension inputs.
setTileUnit(v) ==
    /\ mounted
    /\ TileInputsVisible
    /\ v # tileUnit
    /\ tileUnit' = v
    /\ lastOp' = "none"
    /\ UNCHANGED <<mounted, activeTab, generationMode, surfaceType, extractionType, imageState,
                   outputImage, loading, error, tileWidth, tileHeight, processedImage,
                   isProcessing, processingError, sourceWidth, sourceHeight, sourceUnit,
                   isBotTyping, messages, chatRef, chats, pending, now, objectUrls, orch>>

\* The unit select next to the source dimension inputs.
setSourceUnit(v) ==
    /\ mounted
    /\ activeTab = "extractor"
    /\ v # sourceUnit
    /\ sourceUnit' = v
    /\ lastOp' = "none"
    /\ UNCHANGED <<mounted, activeTab, generationMode, surfaceType, extractionType, imageState,
                   outputImage, loading, error, tileWidth, tileHeight, processedImage,
                   isProcessing, processingError, sourceWidth, sourceHeight, tileUnit,
                   isBotTyping, messages, chatRef, chats, pending, now, objectUrls, orch>>

setSourceWidth(v) ==
    /\ mounted
    /\ activeTab = "extractor"
    /\ v # sourceWidth
    /\ SetPanel([Panel EXCEPT !.sourceWidth = v])
    /\ lastOp' = "none"
    /\ UNCHANGED <<mounted, activeTab, generationMode, loading, isProcessing, isBotTyping,
                   messages, chatRef, chats, pending, now, objectUrls, orch,
                   surfaceType, extractionType, tileUnit, sourceUnit>>

setSourceHeight(v) ==
    /\ mounted
    /\ activeTab = "extractor"
    /\ v # sourceHeight
    /\ SetPanel([Panel EXCEPT !.sourceHeight = v])
    /\ lastOp' = "none"
    /\ UNCHANGED <<mounted, activeTab, generationMode, loading, isProcessing, isBotTyping,
                   messages, chatRef, chats, pending, now, objectUrls, orch,
                   surfaceType, extractionType, tileUnit, sourceUnit>>

(***************************************************************************)
(* View controller: generator and extractor submits                        *)
(***************************************************************************)
\* An outbound call and its arguments; type is the surfaceType or the
\* extractionType argument of the operations that take one.
Request(kind, op, session, images, type, dimensions, message) ==
    [kind |-> kind, op |-> op, session |-> session, images |-> images, type |-> type,
     dimensions |-> dimensions, message |-> message]

\* The surface type substituted as it is.
toLowerCaseIdentity(str) == str

\* String.prototype.toLowerCase on the values of SurfaceType
toLowerCase(str) ==
    CASE str = "Flooring" -> "flooring"
      [] str = "Walls" -> "walls"
      [] OTHER -> str

\* The dimensionInstruction of applyPatternAndMaterial and applyPatternOnly.
TileInstruction(tileDims) ==
    IF tileDims # Null
    THEN <<"The \"Pattern Image\" represents a single tile with the dimensions ">>
         \o tileDims
         \o <<". Use this information to accurately scale the pattern on the surface.">>
    ELSE <<>>

\* The dimensionInstruction of extractAndProcessImage.
SubjectInstruction(dims) ==
    IF dims # Null
    THEN <<"The user has specified that the subject in the photo has real-world dimensions of ">>
         \o dims
         \o <<". Ensure the output image accurately reflects this scale.">>
    ELSE <<>>

\* The prompt templates, cut into chunks at every substitution and around
\* the phrase that tells one generator template from another; the white
\* space of the template literals is not kept.
applyPatternAndMaterialPrompt(surface, tileDims) ==
    <<"You are an AI assistant for Bovali, a luxury interior design brand. Your task is to modify the primary \"Render Shot\" image. Identify the ",
      toLowerCase(surface), " in the \"Render Shot\". ",
      "Apply the visual pattern", " from the \"Pattern Image\" to the ", toLowerCase(surface),
      ". Then, apply the texture, material properties (like gloss, reflection, texture), and color palette from the \"Material Image\" to the same ",
      toLowerCase(surface), ". ">>
    \o TileInstruction(tileDims)
    \o <<"The final result must be a single, photorealistic image that seamlessly integrates the new pattern and material onto the specified surface in the original render shot, maintaining realistic lighting, shadows, and perspective. Do not add any text or other artifacts to the image. Output only the modified image. The images are provided after this prompt.">>

applyPatternOnlyPrompt(surface, tileDims) ==
    <<"You are an AI assistant for Bovali, a luxury interior design brand. Your task is to modify the primary \"Render Shot\" image. Identify the ",
      toLowerCase(surface), " in the \"Render Shot\". ",
      "Apply ONLY the visual pattern", " from the \"Pattern Image\" to the ", toLowerCase(surface),
      ". ">>
    \o TileInstruction(tileDims)
    \o <<"The original material, texture, lighting, and colors of the surface in the \"Render Shot\" should be preserved as much as possible. The final result must be a single, photorealistic image that seamlessly integrates the new pattern onto the specified surface in the original render shot, maintaining realistic lighting, shadows, and perspective. Do not add any text or other artifacts to the image. Output only the modified image. The images are provided after this prompt.">>

applyMaterialOnlyPrompt(surface) ==
    <<"You are an AI assistant for Bovali, a luxury interior design brand. Your task is to modify the primary \"Render Shot\" image. Identify the ",
      toLowerCase(surface), " in the \"Render Shot\". ",
      "Apply ONLY the texture, material properties (like gloss, reflection, texture), and color palette",
      " from the \"Material Image\" to the ", toLowerCase(surface),
      ". If the original surface had a pattern, it should be preserved if possible, but rendered with the new material properties. The final result must be a single, photorealistic image that seamlessly integrates the new material onto the specified surface in the original render shot, maintaining realistic lighting, shadows, and perspective. Do not add any text or other artifacts to the image. Output only the modified image. The images are provided after this prompt.">>

extractAndProcessImagePrompt(extraction, dims) ==
    <<"You are an expert AI assistant specializing in creating professional, catalogue-ready images for the luxury design brand Bovali. Your task is to process the user-submitted photograph and extract a specific element. Analyze the image and correct for any perspective distortion, angled views, uneven lighting, and color inconsistencies. The final result must be a clean, seamless, front-facing, high-resolution image of the requested element, suitable for a professional design catalogue. Extraction Type: Extract the ",
      extraction,
      ". - If 'Pattern', isolate the primary repeating pattern. - If 'Material', isolate the material's texture, color, and finish, ignoring distinct patterns unless they are part of the material itself (like wood grain). ">>
    \o SubjectInstruction(dims)
    \o <<"Output only the processed image. Do not add text or other artifacts. The image is provided after this prompt.">>

editImageWithPromptPrompt(instruction) ==
    <<"As an expert AI image editor, edit the provided image based on the following instruction, ensuring the result is photorealistic and maintains the original image's context. Instruction: \"",
      instruction, "\"">>

\* The prompt the operation of a call builds from its arguments.
Prompt(r) ==
    CASE r.op = "applyPatternAndMaterial" -> applyPatternAndMaterialPrompt(r.type, r.dimensions)
      [] r.op = "applyPatternOnly" -> applyPatternOnlyPrompt(r.type, r.dimensions)
      [] r.op = "applyMaterialOnly" -> applyMaterialOnlyPrompt(r.type)
      [] r.op = "extractAndProcessImage" -> extractAndProcessImagePrompt(r.type, r.dimensions)
      [] r.op = "editImageWithPrompt" -> editImageWithPromptPrompt(r.message)
      [] OTHER -> <<r.message>>

ImageContent(image) == [inlineData |-> image, text |-> Null]

TextContent(text) == [inlineData |-> [data |-> "", mimeType |-> ""], text |-> text]

\* contents.parts of the one generateContent call of an operation: the
\* images in the order they were passed, then the prompt.
Contents(r) ==
    [i \in 1..Len(r.images) |-> ImageContent(r.images[i])] \o <<TextContent(Prompt(r))>>

Calls(kind) == { r \in BagToSet(pending) : r.kind = kind }

\* The handler checking the render shot alone.
MissingInputRenderShotOnly(mode, imgs) == imgs.renderShot.file = NoFile

\* The check the handler makes in the branch of the active mode.
MissingInput(mode, imgs) ==
    CASE mode = "PatternAndMaterial" ->
            \/ imgs.renderShot.file = NoFile
            \/ imgs.pattern.file = NoFile
            \/ imgs.material.file = NoFile
      [] mode = "PatternOnly" ->
            imgs.renderShot.file = NoFile \/ imgs.pattern.file = NoFile
      [] mode = "MaterialOnly" ->
            imgs.renderShot.file = NoFile \/ imgs.material.file = NoFile

ValidationMessage(mode) ==
    CASE mode = "PatternAndMaterial" -> <<"Please upload all three images for this mode.">>
      [] mode = "PatternOnly" ->
            <<"Please upload a Render Shot and a Pattern Image for this mode.">>
      [] mode = "MaterialOnly" ->
            <<"Please upload a Render Shot and a Material Image for this mode.">>

\* The dimension string built as soon as the width is given.
tileDimensionsWidthOnly ==
    IF tileWidth # ""
    THEN <<tileWidth, " x ", tileHeight, " ", tileUnit>>
    ELSE Null

tileDimensions ==
    IF tileWidth # "" /\ tileHeight # ""
    THEN <<tileWidth, " x ", tileHeight, " ", tileUnit>>
    ELSE Null

\* The orchestrator call of the active mode, images in the order they are passed.
GeneratorRequest(mode, imgs) ==
    CASE mode = "PatternAndMaterial" ->
            Request("generate", "applyPatternAndMaterial", NoChat,
                    <<InlineData(imgs.renderShot.file), InlineData(imgs.pattern.file),
                      InlineData(imgs.material.file)>>, surfaceType, tileDimensions, "")
      [] mode = "PatternOnly" ->
            Request("generate", "applyPatternOnly", NoChat,
                    <<InlineData(imgs.renderShot.file), InlineData(imgs.pattern.file)>>,
                    surfaceType, tileDimensions, "")
      [] mode = "MaterialOnly" ->
            Request("generate", "applyMaterialOnly", NoChat,
                    <<InlineData(imgs.renderShot.file), InlineData(imgs.material.file)>>,
                    surfaceType, Null, "")

\* The handler up to its first await; a validation failure runs through catch
\* and finally in the same turn.
handleGeneratorSubmit ==
    /\ mounted
    /\ outputImage' = Null
    /\ IF MissingInput(generationMode, imageState)
       THEN /\ error' = ValidationMessage(generationMode)
            /\ loading' = FALSE
            /\ pending' = pending
       ELSE /\ error' = Null
            /\ loading' = TRUE
            /\ pending' = pending (+) SetToBag({GeneratorRequest(generationMode, imageState)})
    /\ lastOp' = "none"
    /\ UNCHANGED <<mounted, activeTab, generationMode, imageState, tileWidth, tileHeight,
                   processedImage, isProcessing, processingError, sourceWidth, sourceHeight,
                   isBotTyping, messages, chatRef, chats, now, objectUrls, orch,
                   surfaceType, extractionType, tileUnit, sourceUnit>>

\* The button's disabled attribute without `if(loading) return true`.
getIsGeneratorButtonDisabledIgnoresLoading ==
    CASE generationMode = "PatternAndMaterial" ->
            \/ imageState.renderShot.file = NoFile
            \/ imageState.pattern.file = NoFile
            \/ imageState.material.file = NoFile
      [] generationMode = "PatternOnly" ->
            imageState.renderShot.file = NoFile \/ imageState.pattern.file = NoFile
      [] generationMode = "MaterialOnly" ->
            imageState.renderShot.file = NoFile \/ imageState.material.file = NoFile

getIsGeneratorButtonDisabled ==
    IF loading THEN TRUE
    ELSE CASE generationMode = "PatternAndMaterial" ->
                 \/ imageState.renderShot.file = NoFile
                 \/ imageState.pattern.file = NoFile
                 \/ imageState.material.file = NoFile
           [] generationMode = "PatternOnly" ->
                 imageState.renderShot.file = NoFile \/ imageState.pattern.file = NoFile
           [] generationMode = "MaterialOnly" ->
                 imageState.renderShot.file = NoFile \/ imageState.material.file = NoFile

\* The "Generate Design" button, rendered in the generator studio.
ClickGenerate ==
    /\ activeTab = "generator"
    /\ ~getIsGeneratorButtonDisabled
    /\ handleGeneratorSubmit

\* The catch blocks showing the fallback for every rejection.
CaughtMessageFallbackOnly(result, fallback) == fallback

\* err instanceof Error ? err.message : fallback
CaughtMessage(result, fallback) == IF result.isError THEN result.message ELSE fallback

\* await of the call r ends with result: try's tail, catch, finally
GeneratorSettles(r, result) ==
        /\ pending' = pending (-) SetToBag({r})
        /\ IF result.status = "resolved"
           THEN IF result.imageUrl # Null
                THEN outputImage' = result.imageUrl /\ error' = error
                ELSE /\ outputImage' = outputImage
                     /\ error' = <<"Failed to generate image. The API did not return an image.">>
           ELSE /\ outputImage' = outputImage
                /\ error' = CaughtMessage(result, <<"An unknown error occurred.">>)
        /\ loading' = FALSE
        /\ lastOp' = "none"
        /\ UNCHANGED <<mounted, activeTab, generationMode, imageState, tileWidth, tileHeight,
                       processedImage, isProcessing, processingError, sourceWidth,
                       sourceHeight, isBotTyping, messages, chatRef, chats, now, objectUrls,
                       orch,
                   surfaceType, extractionType, tileUnit, sourceUnit>>

GeneratorResolves ==
    \E r \in Calls("generate") : \E result \in Answers(r.op) : GeneratorSettles(r, result)

dimensions ==
    IF sourceWidth # "" /\ sourceHeight # ""
    THEN <<sourceWidth, " x ", sourceHeight, " ", sourceUnit>>
    ELSE Null

handleProcessImage ==
    /\ mounted
    /\ IF imageState.sourceImage.file = NoFile
       THEN /\ processingError' = <<"Please upload an image to process.">>
            /\ UNCHANGED <<isProcessing, processedImage, pending>>
       ELSE /\ isProcessing' = TRUE
            /\ processingError' = Null
            /\ processedImage' = Null
            /\ pending' = pending (+) SetToBag({
                   Request("extract", "extractAndProcessImage", NoChat,
                           <<InlineData(imageState.sourceImage.file)>>, extractionType,
                           dimensions, "")})
    /\ lastOp' = "none"
    /\ UNCHANGED <<mounted, activeTab, generationMode, imageState, outputImage, loading,
                   error, tileWidth, tileHeight, sourceWidth, sourceHeight, isBotTyping,
                   messages, chatRef, chats, now, objectUrls, orch,
                   surfaceType, extractionType, tileUnit, sourceUnit>>

\* The button's disabled attribute without isProcessing.
getIsExtractorButtonDisabledIgnoresProcessing == imageState.sourceImage.file = NoFile

getIsExtractorButtonDisabled == isProcessing \/ imageState.sourceImage.file = NoFile

\* The "Process Image" button, rendered in the extractor studio.
ClickProcess ==
    /\ activeTab = "extractor"
    /\ ~getIsExtractorButtonDisabled
    /\ handleProcessImage

ExtractorSettles(r, result) ==
        /\ pending' = pending (-) SetToBag({r})
        /\ IF result.status = "resolved"
           THEN IF result.imageUrl # Null
                THEN processedImage' = result.imageUrl /\ processingError' = processingError
                ELSE /\ processedImage' = processedImage
                     /\ processingError' =
                            <<"Failed to process image. The AI did not return an image.">>
           ELSE /\ processedImage' = processedImage
                /\ processingError' =
                       CaughtMessage(result, <<"An unknown error occurred during processing.">>)
        /\ isProcessing' = FALSE
        /\ lastOp' = "none"
        /\ UNCHANGED <<mounted, activeTab, generationMode, imageState, outputImage, loading,
                       error, tileWidth, tileHeight, sourceWidth, sourceHeight, isBotTyping,
                       messages, chatRef, chats, now, objectUrls, orch,
                   surfaceType, extractionType, tileUnit, sourceUnit>>

ExtractorResolves ==
    \E r \in Calls("extract") : \E result \in Answers(r.op) : ExtractorSettles(r, result)

(***************************************************************************)
(* View controller: chat                                                   *)
(***************************************************************************)
\* dataUrl.split(','), then /:(.*?);/ on the first piece
parseDataUrl(dataUrl) ==
    IF Len(dataUrl) = 4 /\ dataUrl[1] = "data:" /\ dataUrl[3] = ";base64,"
    THEN [ok |-> TRUE, mimeType |-> dataUrl[2], base64 |-> dataUrl[4]]
    ELSE [ok |-> FALSE, mimeType |-> "", base64 |-> ""]

\* The routing condition without its outputImage conjunct.
EditsImageOnGeneratorTab(output, tab) == tab = "generator"

\* Only allow image editing if there's a generated image from the Generator Studio
EditsImage(output, tab) == output # Null /\ tab = "generator"

Message(id, text, sender) == [id |-> id, text |-> text, sender |-> sender]

\* What chatRef.current.sendMessage gives: response.text, or a rejection.
ChatOutcomes == { [ok |-> TRUE, text |-> <<"Certainly.">>], [ok |-> FALSE, text |-> Null] }

\* The transcript replaced by the new message.
ReplaceMessages(prev, m) == <<m>>

\* setMessages(prev => [...prev, m])
AppendMessage(prev, m) == Append(prev, m)

\* The bot message of a successful edit always the default confirmation.
BotReplyDefaultOnly(text) == <<"Of course. Here is the updated design.">>

\* text || "Of course. Here is the updated design."
BotReply(text) == IF text # "" THEN <<text>> ELSE <<"Of course. Here is the updated design.">>

\* The handler up to its first await.
handleSendMessage(message) ==
    /\ mounted
    /\ chats' = [chats EXCEPT !.sent = @ + 1]
    /\ error' = Null
    /\ IF EditsImage(outputImage, activeTab)
       THEN IF parseDataUrl(outputImage).ok
            THEN /\ messages' = AppendMessage(messages, Message(now, <<message>>, "user"))
                 /\ isBotTyping' = TRUE
                 /\ pending' = pending (+) SetToBag({
                        Request("edit", "editImageWithPrompt", NoChat,
                                <<[data |-> parseDataUrl(outputImage).base64,
                                   mimeType |-> parseDataUrl(outputImage).mimeType]>>,
                                "", Null, message)})
            ELSE /\ messages' =
                        AppendMessage(AppendMessage(messages, Message(now, <<message>>, "user")),
                                      Message(now + 1, <<"Invalid data URL format">>, "bot"))
                 /\ isBotTyping' = FALSE
                 /\ pending' = pending
       ELSE /\ messages' = AppendMessage(messages, Message(now, <<message>>, "user"))
            /\ isBotTyping' = TRUE
            /\ IF chatRef # NoChat
               THEN pending' = pending (+) SetToBag({
                        Request("chat", "sendMessage", chatRef, <<>>, "", Null, message)})
               ELSE pending' = pending
    /\ lastOp' = "none"
    /\ UNCHANGED <<mounted, activeTab, generationMode, imageState, outputImage, loading,
                   tileWidth, tileHeight, processedImage, isProcessing, processingError,
                   sourceWidth, sourceHeight, chatRef, now, objectUrls, orch,
                   surfaceType, extractionType, tileUnit, sourceUnit>>

\* await editImageWithPrompt(...) of the call r ends with result
EditSettles(r, result) ==
        /\ pending' = pending (-) SetToBag({r})
        /\ IF result.status = "resolved"
           THEN IF result.imageUrl # Null
                THEN /\ outputImage' = result.imageUrl
                     /\ messages' = AppendMessage(messages,
                            Message(now + 1, BotReply(result.text), "bot"))
                ELSE /\ outputImage' = outputImage
                     /\ messages' = AppendMessage(messages, Message(now + 1,
                            <<"The AI did not return a new image for your edit request.">>,
                            "bot"))
           ELSE /\ outputImage' = outputImage
                /\ messages' = AppendMessage(messages, Message(now + 1,
                       CaughtMessage(result,
                           <<"Sorry, I couldn't edit the image. Please try a different instruction.">>),
                       "bot"))
        /\ isBotTyping' = FALSE
        /\ lastOp' = "none"
        /\ UNCHANGED <<mounted, activeTab, generationMode, imageState, loading, error,
                       tileWidth, tileHeight, processedImage, isProcessing, processingError,
                       sourceWidth, sourceHeight, chatRef, chats, now, objectUrls, orch,
                   surfaceType, extractionType, tileUnit, sourceUnit>>

EditResolves ==
    \E r \in Calls("edit") : \E result \in Answers(r.op) : EditSettles(r, result)

\* await chatRef.current.sendMessage(...) of the call r ends with reply
ChatSettles(r, reply) ==
        /\ pending' = pending (-) SetToBag({r})
        /\ messages' = AppendMessage(messages, Message(now + 1,
               IF reply.ok THEN reply.text
               ELSE <<"I'm sorry, I encountered an error. Please try again.">>, "bot"))
        /\ isBotTyping' = FALSE
        /\ lastOp' = "none"
        /\ UNCHANGED <<mounted, activeTab, generationMode, imageState, outputImage, loading,
                       error, tileWidth, tileHeight, processedImage, isProcessing,
                       processingError, sourceWidth, sourceHeight, chatRef, chats, now,
                       objectUrls, orch,
                   surfaceType, extractionType, tileUnit, sourceUnit>>

ChatResolves == \E r \in Calls("chat"), reply \in ChatOutcomes : ChatSettles(r, reply)

\* A millisecond passes.  Only the distance between two readings of the clock
\* matters, so the clock is started by the first message.
Tick ==
    /\ chats.sent > 0
    /\ now < ClockStart + MaxTicks
    /\ now' = now + 1
    /\ lastOp' = "none"
    /\ UNCHANGED <<mounted, activeTab, generationMode, imageState, outputImage, loading,
                   error, tileWidth, tileHeight, processedImage, isProcessing,
                   processingError, sourceWidth, sourceHeight, isBotTyping, messages,
                   chatRef, chats, pending, objectUrls, orch,
                   surfaceType, extractionType, tileUnit, sourceUnit>>

(***************************************************************************)
(* The application                                                         *)
(***************************************************************************)
appVars ==
    <<mounted, activeTab, generationMode, surfaceType, extractionType, imageState,
      outputImage, loading, error, tileUnit, sourceUnit,
      tileWidth, tileHeight, processedImage, isProcessing, processingError, sourceWidth,
      sourceHeight, isBotTyping, messages, chatRef, pending, now, objectUrls, chats, lastOp>>

vars == <<appVars, orch>>

\* The useState and useRef initial values.
AppInit ==
    /\ mounted = FALSE
    /\ activeTab = "generator"
    /\ generationMode = "PatternAndMaterial"
    /\ surfaceType = "Flooring"
    /\ extractionType = "Pattern"
    /\ tileUnit = "cm"
    /\ sourceUnit = "cm"
    /\ imageState = [renderShot |-> EmptyImage, pattern |-> EmptyImage,
                     material |-> EmptyImage, sourceImage |-> EmptyImage]
    /\ outputImage = Null
    /\ loading = FALSE
    /\ error = Null
    /\ tileWidth = ""
    /\ tileHeight = ""
    /\ processedImage = Null
    /\ isProcessing = FALSE
    /\ processingError = Null
    /\ sourceWidth = ""
    /\ sourceHeight = ""
    /\ isBotTyping = FALSE
    /\ messages = <<Greeting>>
    /\ chatRef = NoChat
    /\ pending = EmptyBag
    /\ now = ClockStart
    /\ objectUrls = [created |-> 0, live |-> {}]
    /\ chats = [created |-> 0, sent |-> 0]
    /\ lastOp = "none"

(***************************************************************************)
(* One orchestrator call in isolation                                      *)
(***************************************************************************)
OrchIdle == [op |-> "none", api |-> [kind |-> "throwOther",
                                     response |-> [shape |-> "NoCandidates", parts |-> <<>>]],
             done |-> FALSE, result |-> Rejected(FALSE, Null)]

OrchInputs ==
    { [op |-> o, api |-> a, done |-> FALSE, result |-> Rejected(FALSE, Null)] :
        o \in Operations, a \in ApiOutcomes }

OrchCall ==
    /\ orch.op # "none"
    /\ ~orch.done
    /\ orch' = [orch EXCEPT !.done = TRUE, !.result = OperationResult(orch.op, orch.api)]
    /\ UNCHANGED appVars

InitOrch == AppInit /\ orch \in OrchInputs

NextOrch == OrchCall

SpecOrch == InitOrch /\ [][NextOrch]_vars

(***************************************************************************)
(* The running application: what the user and the network can do           *)
(***************************************************************************)
Init == AppInit /\ orch = OrchIdle

\* The two studios: the controls that fill, clear and submit a panel, and the
\* answers to their requests.  The surface type, the extraction type and the
\* units only reach the prompt; they are chosen under SpecSubmit.
StudioInput ==
    \/ \E tab \in Tabs : setActiveTab(tab)
    \/ \E mode \in Modes : setGenerationMode(mode)
    \/ \E slot \in Slots : handleImageRemove(slot)
    \/ ClickGenerate
    \/ ClickProcess

StudioAnswer ==
    \/ GeneratorResolves
    \/ ExtractorResolves

DimensionInput ==
    \/ \E v \in DimValues : setTileWidth(v)
    \/ \E v \in DimValues : setTileHeight(v)
    \/ \E v \in DimValues : setSourceWidth(v)
    \/ \E v \in DimValues : setSourceHeight(v)

NextStudio ==
    \/ Mount
    \/ StudioInput
    \/ StudioAnswer
    \/ \E file \in Files, slot \in Slots : handleImageSelect(file, slot)
    \/ DimensionInput

SpecStudio == Init /\ [][NextStudio]_vars

\* The studios and the chat together, for a user who uploads one file and
\* leaves the dimension inputs alone.
Next ==
    \/ Mount
    \/ StudioInput
    \/ StudioAnswer
    \/ \E slot \in Slots : handleImageSelect("room.png", slot)
    \/ \E message \in MessageTexts : chats.sent < MaxSends /\ handleSendMessage(message)
    \/ EditResolves
    \/ ChatResolves
    \/ Tick

Spec == Init /\ [][Next]_vars

(***************************************************************************)
(* The two submit handlers called on their own: the onClick of each button *)
(* without the button's disabled attribute, from every panel state the     *)
(* user can prepare by uploading into empty slots.                         *)
(***************************************************************************)
SlotOrder(slot) ==
    CASE slot = "renderShot" -> 1
      [] slot = "pattern" -> 2
      [] slot = "material" -> 3
      [] slot = "sourceImage" -> 4

\* The locator of a slot filled after the filled slots before it.
UrlOf(slot, filled) ==
    Cardinality({ t \in filled : SlotOrder(t) <= SlotOrder(slot) })

Uploaded(filled, files) ==
    [s \in Slots |->
        IF s \in filled THEN [file |-> files[s], previewUrl |-> UrlOf(s, filled)]
        ELSE EmptyImage]

PreparedImages ==
    { [renderShot |-> u.renderShot, pattern |-> u.pattern,
       material |-> u.material, sourceImage |-> u.sourceImage] :
         u \in { Uploaded(filled, files) :
                   filled \in SUBSET { s \in Slots : UploaderVisible(s) },
                   files \in [Slots -> Files] } }

InitSubmit ==
    /\ mounted = TRUE
    /\ activeTab \in Tabs
    /\ generationMode \in Modes
    /\ surfaceType = "Flooring"
    /\ extractionType = "Pattern"
    /\ tileUnit = "cm"
    /\ sourceUnit = "cm"
    /\ imageState \in PreparedImages
    /\ objectUrls =
           [created |-> Cardinality({ s \in Slots : imageState[s] # EmptyImage }),
            live |-> { imageState[s].previewUrl : s \in Slots } \ {NoUrl}]
    /\ tileWidth \in (IF TileInputsVisible THEN DimTexts ELSE {""})
    /\ tileHeight \in (IF TileInputsVisible THEN DimTexts ELSE {""})
    /\ sourceWidth \in (IF activeTab = "extractor" THEN DimTexts ELSE {""})
    /\ sourceHeight \in (IF activeTab = "extractor" THEN DimTexts ELSE {""})
    /\ outputImage = Null
    /\ loading = FALSE
    /\ error = Null
    /\ processedImage = Null
    /\ isProcessing = FALSE
    /\ processingError = Null
    /\ isBotTyping = FALSE
    /\ messages = <<Greeting>>
    /\ chatRef = 1
    /\ pending = EmptyBag
    /\ now = ClockStart
    /\ chats = [created |-> 1, sent |-> 0]
    /\ lastOp = "none"
    /\ orch = OrchIdle

TypeInput ==
    \/ \E v \in SurfaceTypes : setSurfaceType(v)
    \/ \E v \in ExtractionTypes : setExtractionType(v)
    \/ \E v \in Units : setTileUnit(v)
    \/ \E v \in Units : setSourceUnit(v)

NextSubmit ==
    \/ activeTab = "generator" /\ pending = EmptyBag /\ handleGeneratorSubmit
    \/ activeTab = "extractor" /\ pending = EmptyBag /\ handleProcessImage
    \/ TypeInput
    \/ StudioAnswer

SpecSubmit == InitSubmit /\ [][NextSubmit]_vars

(***************************************************************************)
(* The image slots on their own: files selected and removed in the panel   *)
(* of any tab and mode, no switch in between.                              *)
(***************************************************************************)
InitSlots ==
    /\ mounted = TRUE
    /\ activeTab \in Tabs
    /\ generationMode \in Modes
    /\ surfaceType = "Flooring"
    /\ extractionType = "Pattern"
    /\ tileUnit = "cm"
    /\ sourceUnit = "cm"
    /\ imageState = [renderShot |-> EmptyImage, pattern |-> EmptyImage,
                     material |-> EmptyImage, sourceImage |-> EmptyImage]
    /\ objectUrls = [created |-> 0, live |-> {}]
    /\ tileWidth = ""
    /\ tileHeight = ""
    /\ sourceWidth = ""
    /\ sourceHeight = ""
    /\ outputImage = Null
    /\ loading = FALSE
    /\ error = Null
    /\ processedImage = Null
    /\ isProcessing = FALSE
    /\ processingError = Null
    /\ isBotTyping = FALSE
    /\ messages = <<Greeting>>
    /\ chatRef = 1
    /\ pending = EmptyBag
    /\ now = ClockStart
    /\ chats = [created |-> 1, sent |-> 0]
    /\ lastOp = "none"
    /\ orch = OrchIdle

NextSlots ==
    \/ \E file \in Files, slot \in Slots : handleImageSelect(file, slot)
    \/ \E slot \in Slots : handleImageRemove(slot)

SpecSlots == InitSlots /\ [][NextSlots]_vars

(***************************************************************************)
(* The chat on its own: messages sent one after the other, before or after *)
(* the replies, from the freshly mounted application and from the          *)
(* generator studio showing a Pattern Only design.                         *)
(***************************************************************************)
DesignShown ==
    /\ generationMode = "PatternOnly"
    /\ imageState = [renderShot |-> [file |-> "room.png", previewUrl |-> 1],
                     pattern |-> [file |-> "tile.jpg", previewUrl |-> 2],
                     material |-> EmptyImage, sourceImage |-> EmptyImage]
    /\ objectUrls = [created |-> 2, live |-> {1, 2}]
    /\ outputImage = DataUrl("image/png", "AAAA")

NothingShown ==
    /\ generationMode = "PatternAndMaterial"
    /\ imageState = [renderShot |-> EmptyImage, pattern |-> EmptyImage,
                     material |-> EmptyImage, sourceImage |-> EmptyImage]
    /\ objectUrls = [created |-> 0, live |-> {}]
    /\ outputImage = Null

InitChat ==
    /\ mounted = TRUE
    /\ activeTab = "generator"
    /\ DesignShown \/ NothingShown
    /\ surfaceType = "Flooring"
    /\ extractionType = "Pattern"
    /\ tileUnit = "cm"
    /\ sourceUnit = "cm"
    /\ tileWidth = ""
    /\ tileHeight = ""
    /\ sourceWidth = ""
    /\ sourceHeight = ""
    /\ loading = FALSE
    /\ error = Null
    /\ processedImage = Null
    /\ isProcessing = FALSE
    /\ processingError = Null
    /\ isBotTyping = FALSE
    /\ messages = <<Greeting>>
    /\ chatRef = 1
    /\ pending = EmptyBag
    /\ now = ClockStart
    /\ chats = [created |-> 1, sent |-> 0]
    /\ lastOp = "none"
    /\ orch = OrchIdle

NextChat ==
    \/ \E message \in MessageTexts : chats.sent < MaxChatSends /\ handleSendMessage(message)
    \/ EditResolves
    \/ ChatResolves
    \/ Tick

SpecChat == InitChat /\ [][NextChat]_vars

(***************************************************************************)
(* The studios for a user who uploads one file, every answer to a request  *)
(* arriving in the end.                                                    *)
(***************************************************************************)
NextLive ==
    \/ Mount
    \/ StudioInput
    \/ StudioAnswer
    \/ \E slot \in Slots : handleImageSelect("room.png", slot)

SpecLive ==
    /\ Init
    /\ [][NextLive]_vars
    /\ WF_vars(GeneratorResolves)
    /\ WF_vars(ExtractorResolves)

(***************************************************************************)
(* Properties of the orchestrator (checked under SpecOrch)                 *)
(***************************************************************************)
Includes(message, t) == \E k \in DOMAIN message : message[k] = t

ImageIndexes(parts) == { i \in DOMAIN parts : parts[i].inlineData }

TextIndexes(parts) == { i \in DOMAIN parts : ~parts[i].inlineData /\ parts[i].text # "" }

Least(S) == CHOOSE i \in S : \A j \in S : i <= j

Greatest(S) == CHOOSE i \in S : \A j \in S : j <= i

\* The call has run on a response of the external model.
OrchAnswered == orch.done /\ orch.api.kind = "response"

OrchParts == orch.api.response.parts

C3_ImageYieldsLocator ==
    (OrchAnswered /\ ImageIndexes(OrchParts) # {}) =>
        /\ orch.result.status = "resolved"
        /\ orch.result.imageUrl # Null
        /\ \E i \in ImageIndexes(OrchParts) :
              orch.result.imageUrl =
                  <<"data:", OrchParts[i].mimeType, ";base64,", OrchParts[i].data>>

\* A surface operation answered with text first and the image last.
C3_Witness ==
    /\ OrchAnswered
    /\ orch.op \in SurfaceOperations
    /\ Len(OrchParts) = 3
    /\ ImageIndexes(OrchParts) = {3}
    /\ TextIndexes(OrchParts) = {1, 2}
    /\ orch.result.status = "resolved"

\* C4 as stated: for every operation, the edit included, the image returned
\* for a response with two or more image parts is the first image part's.
C4_FirstImageWins ==
    (OrchAnswered /\ Cardinality(ImageIndexes(OrchParts)) >= 2) =>
        /\ orch.result.status = "resolved"
        /\ orch.result.imageUrl =
              DataUrl(OrchParts[Least(ImageIndexes(OrchParts))].mimeType,
                      OrchParts[Least(ImageIndexes(OrchParts))].data)

(***************************************************************************)
(* Properties of the submit handlers (checked under SpecSubmit)            *)
(***************************************************************************)
\* The image slots a submit needs, by what is submitted.
RequiredSlots(mode) ==
    CASE mode = "PatternAndMaterial" -> {"renderShot", "pattern", "material"}
      [] mode = "PatternOnly" -> {"renderShot", "pattern"}
      [] mode = "MaterialOnly" -> {"renderShot", "material"}
      [] mode = "extraction" -> {"sourceImage"}

SlotMissing(mode) == \E s \in RequiredSlots(mode) : imageState[s].file = NoFile

ValidationMessages ==
    { <<"Please upload all three images for this mode.">>,
      <<"Please upload a Render Shot and a Pattern Image for this mode.">>,
      <<"Please upload a Render Shot and a Material Image for this mode.">>,
      <<"Please upload an image to process.">> }

\* C1: a generator submit in any mode, or an extractor submit, made while a
\* slot the active mode requires is empty, stores a validation message in
\* the panel's error state and issues no outbound request.
C1_MissingInputFailsValidation ==
    [][ /\ (handleGeneratorSubmit /\ SlotMissing(generationMode)) =>
              /\ error' \in ValidationMessages
              /\ pending' = pending
        /\ (handleProcessImage /\ SlotMissing("extraction")) =>
              /\ processingError' \in ValidationMessages
              /\ pending' = pending ]_vars

\* Pattern Only submitted with a render shot and no pattern.
C1_Witness ==
    /\ generationMode = "PatternOnly"
    /\ imageState.renderShot.file # NoFile
    /\ imageState.pattern.file = NoFile
    /\ error = <<"Please upload a Render Shot and a Pattern Image for this mode.">>
    /\ pending = EmptyBag

(***************************************************************************)
(* Properties of the running application                                   *)
(***************************************************************************)
\* How many calls of a kind await their answer.
InFlight(kind) == BagCardinality([r \in Calls(kind) |-> pending[r]])

\* The step appends a user message: a chat message is sent.
SendStep ==
    /\ Len(messages') > Len(messages)
    /\ messages'[Len(messages) + 1].sender = "user"

\* The step issues exactly the call r.
Issues(r) == pending' = pending (+) SetToBag({r})

\* C5: a message sent while the generator output image is empty goes to the
\* chat session and issues no edit; one sent while the output image is set
\* and the generator tab is active issues an edit that carries that output
\* image and does not call the session.  Output image and tab are read in
\* the state the message is sent from.
C5_ChatRouting ==
    [][ SendStep =>
          /\ outputImage = Null =>
                \E r \in BagToSet(pending') :
                    /\ Issues(r)
                    /\ r.kind = "chat"
                    /\ r.session = chatRef
                    /\ r.session # NoChat
          /\ (outputImage # Null /\ activeTab = "generator") =>
                \E r \in BagToSet(pending') :
                    /\ Issues(r)
                    /\ r.kind = "edit"
                    /\ Len(r.images) = 1
                    /\ <<"data:", r.images[1].mimeType, ";base64,", r.images[1].data>>
                          = outputImage ]_vars

\* An edit of the shown output image awaits its answer.
C5_Witness ==
    /\ outputImage # Null
    /\ activeTab = "generator"
    /\ isBotTyping
    /\ \E r \in Calls("edit") : DataUrl(r.images[1].mimeType, r.images[1].data) = outputImage
    /\ Calls("chat") = {}

GeneratorSlots == {"renderShot", "pattern", "material"}

GeneratorCleared(imgs, output, err, width, height) ==
    /\ \A s \in GeneratorSlots : imgs[s].file = NoFile /\ imgs[s].previewUrl = NoUrl
    /\ output = Null
    /\ err = Null
    /\ width = ""
    /\ height = ""

ExtractorCleared(imgs, output, err, width, height) ==
    /\ imgs.sourceImage.file = NoFile /\ imgs.sourceImage.previewUrl = NoUrl
    /\ output = Null
    /\ err = Null
    /\ width = ""
    /\ height = ""

\* C6: right after a switch of the active tab, every image slot, the output
\* image, the error and the dimension inputs of the panel that was left are
\* empty; right after a switch of the generation mode, the render-shot,
\* pattern and material slots, the generator output image, the generator
\* error and the tile dimensions are empty.
C6_SwitchClears ==
    [][ /\ (activeTab' # activeTab /\ activeTab = "generator") =>
              GeneratorCleared(imageState', outputImage', error', tileWidth', tileHeight')
        /\ (activeTab' # activeTab /\ activeTab = "extractor") =>
              ExtractorCleared(imageState', processedImage', processingError',
                               sourceWidth', sourceHeight')
        /\ generationMode' # generationMode =>
              GeneratorCleared(imageState', outputImage', error', tileWidth', tileHeight')
      ]_vars

\* The generator studio was left while it held something.
C6_Witness ==
    /\ lastOp = "setActiveTab"
    /\ activeTab = "extractor"
    /\ GeneratorCleared(imageState, outputImage, error, tileWidth, tileHeight)

\* C7 as stated: a switch of the active tab or of the generation mode revokes
\* the preview locator of every slot it clears.
C7_SwitchRevokes ==
    [][ (activeTab' # activeTab \/ generationMode' # generationMode) =>
          \A s \in Slots :
              (imageState[s].previewUrl # NoUrl /\ imageState'[s].previewUrl = NoUrl) =>
                  imageState[s].previewUrl \notin objectUrls'.live ]_vars

\* A slot of the shown panel is given a file or loses its file.
SlotStep(s) ==
    /\ imageState'[s] # imageState[s]
    /\ activeTab' = activeTab
    /\ generationMode' = generationMode

\* C8: removing the image of a slot, and selecting a new image for a slot,
\* clears the output image and the error of the slot's panel: outputImage
\* and error for a generator slot, processedImage and processingError for
\* the extractor's.
C8_SlotChangeClearsResults ==
    [][ /\ (\E s \in GeneratorSlots : SlotStep(s)) => (outputImage' = Null /\ error' = Null)
        /\ SlotStep("sourceImage") => (processedImage' = Null /\ processingError' = Null)
      ]_vars

\* An image was removed while its panel showed a result or an error.
C8_Witness ==
    /\ lastOp = "handleImageRemove"
    /\ outputImage = Null
    /\ error = Null
    /\ processedImage = Null
    /\ processingError = Null

C10_OneSubmitInFlight ==
    /\ InFlight("generate") <= 1
    /\ InFlight("extract") <= 1
    /\ InFlight("generate") = 1 => (loading /\ getIsGeneratorButtonDisabled)
    /\ InFlight("extract") = 1 => (isProcessing /\ getIsExtractorButtonDisabled)

\* A generator request is in flight and the user has switched the mode since:
\* the request is not the one the active mode would issue.
C10_Witness ==
    /\ InFlight("generate") = 1
    /\ loading
    /\ activeTab = "generator"
    /\ getIsGeneratorButtonDisabled
    /\ \E r \in Calls("generate") :
          r.op = "applyMaterialOnly" /\ generationMode = "PatternAndMaterial"

\* C11: a generator or extractor request that fails leaves the panel with
\* its loading flag false and its error holding the failure's message as it
\* is when the rejection is an Error, the panel's generic fallback when it
\* is not; the failed request is gone and no request of the panel is issued
\* in its place.
C11_FailureReported ==
    [][ /\ \A r \in Calls("generate") : \A result \in Answers(r.op) :
              (GeneratorSettles(r, result) /\ result.status = "rejected") =>
                  /\ loading' = FALSE
                  /\ error' = (IF result.isError THEN result.message
                               ELSE <<"An unknown error occurred.">>)
                  /\ \A q \in BagToSet(pending') : q.kind # "generate"
        /\ \A r \in Calls("extract") : \A result \in Answers(r.op) :
              (ExtractorSettles(r, result) /\ result.status = "rejected") =>
                  /\ isProcessing' = FALSE
                  /\ processingError' =
                         (IF result.isError THEN result.message
                          ELSE <<"An unknown error occurred during processing.">>)
                  /\ \A q \in BagToSet(pending') : q.kind # "extract" ]_vars

\* A generator request was rejected with an Error, an extractor request with
\* a value that is no Error; both panels are idle again.
C11_Witness ==
    /\ error = NetworkErrorMessage
    /\ processingError = <<"An unknown error occurred during processing.">>
    /\ ~loading
    /\ ~isProcessing
    /\ pending = EmptyBag

\* C12: after any sequence of image selects and image removes the preview
\* locators not yet released are exactly the ones a slot holds: a select
\* into a slot that holds a preview and a remove release the slot's old
\* locator.
C12_LiveLocatorsReferenced ==
    objectUrls.live = { imageState[s].previewUrl : s \in Slots } \ {NoUrl}

\* A slot was given a second file and another slot was cleared.
C12_Witness ==
    /\ objectUrls.created = 3
    /\ objectUrls.live = {3}
    /\ imageState.renderShot.previewUrl = 3
    /\ imageState.pattern.previewUrl = NoUrl

\* The slots of a submit, in the order the claim lists them.
ModeSlots(mode) ==
    CASE mode = "PatternAndMaterial" -> <<"renderShot", "pattern", "material">>
      [] mode = "PatternOnly" -> <<"renderShot", "pattern">>
      [] mode = "MaterialOnly" -> <<"renderShot", "material">>
      [] mode = "extraction" -> <<"sourceImage">>

\* The step issues exactly the call r, whose one generateContent request
\* carries the files of the mode's slots in order and then one prompt.
IssuesOneRequest(mode, r) ==
    /\ Issues(r)
    /\ Len(Contents(r)) = Len(ModeSlots(mode)) + 1
    /\ \A i \in 1..Len(ModeSlots(mode)) :
          Contents(r)[i] = ImageContent(InlineData(imageState[ModeSlots(mode)[i]].file))
    /\ Contents(r)[Len(Contents(r))] = TextContent(Prompt(r))

LowerCased(surface) == IF surface = "Flooring" THEN "flooring" ELSE "walls"

\* A response whose parts hold exactly one inline image.
OneImageAnswers ==
    { api \in AppApiOutcomes :
        api.kind = "response" /\ Cardinality(ImageIndexes(api.response.parts)) = 1 }

TheImage(api) ==
    LET i == Least(ImageIndexes(api.response.parts))
    IN  <<"data:", api.response.parts[i].mimeType, ";base64,", api.response.parts[i].data>>

\* What C13 says of a valid generator submit and of the answers to the
\* requests of both panels.
GeneratorSubmitIssues ==
    (handleGeneratorSubmit /\ ~SlotMissing(generationMode)) =>
        \E r \in BagToSet(pending') :
            /\ IssuesOneRequest(generationMode, r)
            /\ Includes(Prompt(r), LowerCased(surfaceType))
            /\ ~Includes(Prompt(r), surfaceType)
            /\ generationMode = "PatternOnly" =>
                  Includes(Prompt(r), "Apply ONLY the visual pattern")

OneImageYieldsOutput ==
    /\ \A r \in Calls("generate") : \A api \in OneImageAnswers :
          GeneratorSettles(r, OperationResult(r.op, api)) =>
              (outputImage' = TheImage(api) /\ error' = Null)
    /\ \A r \in Calls("extract") : \A api \in OneImageAnswers :
          ExtractorSettles(r, OperationResult(r.op, api)) =>
              (processedImage' = TheImage(api) /\ processingError' = Null)

\* C13 as stated: each valid generator or extractor submit issues exactly
\* one request that carries the images of the active mode in order before
\* one prompt, and the prompt names the lower-cased surface type, the
\* extractor's included; the Pattern Only prompt contains "Apply ONLY the
\* visual pattern"; a response with one inline image yields that image and
\* no error.
C13_PromptNamesSurface ==
    [][ /\ GeneratorSubmitIssues
        /\ (handleProcessImage /\ ~SlotMissing("extraction")) =>
              \E r \in BagToSet(pending') :
                  /\ IssuesOneRequest("extraction", r)
                  /\ Includes(Prompt(r), LowerCased(surfaceType))
        /\ OneImageYieldsOutput ]_vars

\* C13 amended: each valid generator or extractor submit issues exactly one
\* request that carries the images of the active mode in order before one
\* prompt.  A generator prompt names the lower-cased surface type, and the
\* Pattern Only prompt contains "Apply ONLY the visual pattern"; the
\* extractor prompt names the selected extraction type as it is spelled and
\* no surface type.  A response with one inline image yields that image
\* and no error.
C13_OneRequestPerSubmit ==
    [][ /\ GeneratorSubmitIssues
        /\ (handleProcessImage /\ ~SlotMissing("extraction")) =>
              \E r \in BagToSet(pending') :
                  /\ IssuesOneRequest("extraction", r)
                  /\ Includes(Prompt(r), extractionType)
                  /\ \A t \in SurfaceTypes :
                        ~Includes(Prompt(r), t) /\ ~Includes(Prompt(r), LowerCased(t))
        /\ OneImageYieldsOutput ]_vars

\* Pattern Only submitted for the walls, answered with one image.
C13_Witness ==
    /\ generationMode = "PatternOnly"
    /\ surfaceType = "Walls"
    /\ outputImage = <<"data:", "image/jpeg", ";base64,", "BBBB">>
    /\ error = Null
    /\ pending = EmptyBag

\* C14: the transcript is append-only.  Every step (a send, a session reply,
\* an edit reply, a failure, a tab or mode switch, an image select or
\* remove) leaves the previous transcript as a prefix of the new one.
C14_TranscriptAppendOnly ==
    [][ /\ Len(messages) <= Len(messages')
        /\ \A i \in 1..Len(messages) : messages'[i] = messages[i] ]_vars

\* A message was sent and answered, and the user has left the studio since.
C14_Witness ==
    /\ Len(messages) = 3
    /\ messages[1] = Greeting
    /\ messages[2].sender = "user"
    /\ messages[3].sender = "bot"
    /\ lastOp = "setActiveTab"

\* The state variables the resolution of a call writes.
Writes(kind) ==
    CASE kind = "generate" -> {"outputImage", "error", "loading"}
      [] kind = "extract" -> {"processedImage", "processingError", "isProcessing"}
      [] kind = "edit" -> {"outputImage", "messages", "isBotTyping"}
      [] kind = "chat" -> {"messages", "isBotTyping"}

\* C15 as stated: in no reachable state are two outbound calls pending whose
\* resolutions write the same state variable; in particular never a
\* generator request together with a chat-initiated edit, which both write
\* the generator output image.
C15_NoConcurrentMutation ==
    \A r1, r2 \in BagToSet(pending) :
        (r1 # r2 \/ pending[r1] > 1) => Writes(r1.kind) \cap Writes(r2.kind) = {}

\* C17: the answer to a chat-initiated edit.  A success replaces the
\* generator output image with the returned image and appends exactly one
\* bot message, the returned text or the default confirmation when none was
\* returned; a failure leaves the output image as it is, appends exactly
\* one bot message carrying the error's message, and leaves the generator
\* panel's error as it is.
C17_EditOutcome ==
    [][ \A r \in Calls("edit") : \A result \in Answers(r.op) :
          EditSettles(r, result) =>
              /\ Len(messages') = Len(messages) + 1
              /\ SubSeq(messages', 1, Len(messages)) = messages
              /\ messages'[Len(messages')].sender = "bot"
              /\ error' = error
              /\ IF result.status = "resolved"
                 THEN /\ outputImage' = result.imageUrl
                      /\ result.imageUrl # Null
                      /\ messages'[Len(messages')].text =
                             (IF result.text # "" THEN <<result.text>>
                              ELSE <<"Of course. Here is the updated design.">>)
                 ELSE /\ outputImage' = outputImage
                      /\ result.isError
                      /\ messages'[Len(messages')].text = result.message ]_vars

\* An edit came back with an image and a text.
C17_Witness ==
    /\ Len(messages) = 3
    /\ messages[3].sender = "bot"
    /\ messages[3].text = <<"Here is your design">>
    /\ outputImage # Null
    /\ Calls("edit") = {}
    /\ ~isBotTyping

\* C19 as stated: in every reachable state the generator's output image and
\* error are not both set, and the extractor's processed image and
\* processing error are not both set.
C19_NeverSucceededAndFailed ==
    /\ ~(outputImage # Null /\ error # Null)
    /\ ~(processedImage # Null /\ processingError # Null)

\* C20 as stated: in every reachable state a generator output image implies
\* a populated render-shot slot and an extractor output image a populated
\* source-image slot; a request in flight when the panel is cleared does not
\* repopulate the output.
C20_OutputImpliesInputs ==
    /\ outputImage # Null => imageState.renderShot.file # NoFile
    /\ processedImage # Null => imageState.sourceImage.file # NoFile

\* C16: when every outbound call is answered in the end, every generator or
\* extractor submit is followed by the panel's loading flag becoming false;
\* the flag is true exactly while the submit's request is unanswered, and
\* only the answer to that request clears it.
C16_LoadingUntilResolved ==
    /\ [](loading <=> InFlight("generate") = 1)
    /\ [](isProcessing <=> InFlight("extract") = 1)
    /\ [][ (loading /\ ~loading') =>
              \E r \in Calls("generate") : pending' = pending (-) SetToBag({r}) ]_vars
    /\ [][ (isProcessing /\ ~isProcessing') =>
              \E r \in Calls("extract") : pending' = pending (-) SetToBag({r}) ]_vars
    /\ (loading ~> ~loading)
    /\ (isProcessing ~> ~isProcessing)

\* Both panels wait for an answer: the generator was left while loading.
C16_Witness ==
    /\ activeTab = "extractor"
    /\ loading
    /\ InFlight("generate") = 1
    /\ isProcessing
    /\ InFlight("extract") = 1

\* p holds the chunks of sub, one after the other.
Contains(p, sub) ==
    \E k \in 0..(Len(p) - Len(sub)) : SubSeq(p, k + 1, k + Len(sub)) = sub

\* How a dimension instruction begins, in the generator and in the extractor.
InstructionOpenings ==
    { "The \"Pattern Image\" represents a single tile with the dimensions ",
      "The user has specified that the subject in the photo has real-world dimensions of " }

CarriesInstruction(p) == \E t \in InstructionOpenings : Includes(p, t)

\* The prompt carries the instruction with "<width> x <height> <unit>" in it
\* when wanted, and neither when not.
InstructionIff(wanted, p, width, height, unit) ==
    IF wanted
    THEN CarriesInstruction(p) /\ Contains(p, <<width, " x ", height, " ", unit>>)
    ELSE ~CarriesInstruction(p) /\ ~Includes(p, " x ")

\* C18: the prompt of a submit carries a dimension instruction if and only
\* if the width and the height input are both non-empty, and then the string
\* "<width> x <height> <unit>" stands in it as typed, whatever was typed;
\* with either input empty the prompt carries none, and the Material Only
\* prompt never carries one.
C18_DimensionInstruction ==
    [][ /\ (handleGeneratorSubmit /\ ~SlotMissing(generationMode)) =>
              \E r \in BagToSet(pending') :
                  /\ Issues(r)
                  /\ InstructionIff(/\ generationMode # "MaterialOnly"
                                    /\ tileWidth # ""
                                    /\ tileHeight # "",
                                    Prompt(r), tileWidth, tileHeight, tileUnit)
        /\ (handleProcessImage /\ ~SlotMissing("extraction")) =>
              \E r \in BagToSet(pending') :
                  /\ Issues(r)
                  /\ InstructionIff(sourceWidth # "" /\ sourceHeight # "",
                                    Prompt(r), sourceWidth, sourceHeight, sourceUnit) ]_vars

\* A pattern submitted with a width that is no tile's and inches chosen.
C18_Witness ==
    /\ tileWidth = "-1.5e3"
    /\ tileHeight = "60"
    /\ tileUnit = "inches"
    /\ \E r \in Calls("generate") :
          /\ r.op = "applyPatternOnly"
          /\ Contains(Prompt(r), <<"-1.5e3", " x ", "60", " ", "inches">>)

\* C21 as stated: the typing indicator is true exactly while at least one
\* chat-initiated request, session turn or image edit, is unanswered; when
\* several messages are sent before the first reply, it stays true until the
\* last of them is answered.
C21_TypingWhileUnanswered ==
    isBotTyping <=> (InFlight("chat") + InFlight("edit") >= 1)

\* The panel state of both studios.
PanelState ==
    <<imageState, outputImage, processedImage, loading, isProcessing, error, processingError>>

\* C22 as stated: a chat message routed to the session leaves the image
\* slots, output images, loading flags and error states of both panels as
\* they are, at the send and at its reply.
C22_SessionTurnKeepsPanels ==
    [][ /\ (SendStep /\ ~(outputImage # Null /\ activeTab = "generator")) =>
              PanelState' = PanelState
        /\ (\E r \in Calls("chat"), reply \in ChatOutcomes : ChatSettles(r, reply)) =>
              PanelState' = PanelState ]_vars

\* C23 as stated: the messages of the transcript have pairwise distinct
\* identifiers, whatever the order and timing of sends and replies.
C23_DistinctIdentifiers ==
    \A i, j \in DOMAIN messages : i # j => messages[i].id # messages[j].id

====
